---------------------------- MODULE Spec2Model ----------------------------
(***************************************************************************)
(* Model of the seccomp sandbox initializer (seccomp_redbear, python3      *)
(* profile): the policy resolver get_allowed_syscalls, the privilege-drop  *)
(* sequence, the filter installer and the orchestrator init_seccomp, with  *)
(* the kernel state they act on.                                           *)
(***************************************************************************)
EXTENDS Integers, Sequences, FiniteSets, TLC

(***************************************************************************)
(* Syscall numbers of the python3 profile: libc's SYS_ constants in the    *)
(* x86_64 numbering.                                                       *)
(***************************************************************************)
SYS_read == 0
SYS_write == 1
SYS_openat == 257
SYS_close == 3
SYS_newfstatat == 262
SYS_ioctl == 16
SYS_lseek == 8
SYS_getdents64 == 217
SYS_futex == 202
SYS_mmap == 9
SYS_brk == 12
SYS_mprotect == 10
SYS_munmap == 11
SYS_rt_sigreturn == 15
SYS_mremap == 25
SYS_setuid == 105
SYS_setgid == 106
SYS_getuid == 102
SYS_getpid == 39
SYS_getppid == 110
SYS_gettid == 186
SYS_exit == 60
SYS_exit_group == 231
SYS_tgkill == 234
SYS_rt_sigaction == 13
SYS_sched_yield == 24
SYS_set_robust_list == 273
SYS_get_robust_list == 274
SYS_rseq == 334
SYS_clock_gettime == 228
SYS_gettimeofday == 96
SYS_nanosleep == 35
SYS_epoll_create1 == 291
SYS_epoll_ctl == 233
SYS_clock_nanosleep == 230
SYS_pselect6 == 270
SYS_rt_sigprocmask == 14
SYS_sigaltstack == 131
SYS_getrandom == 318
SYS_clone == 56
SYS_mkdirat == 258
SYS_mkdir == 83
SYS_socket == 41
SYS_connect == 42
SYS_bind == 49
SYS_listen == 50
SYS_accept == 43
SYS_sendto == 44
SYS_recvfrom == 45
SYS_getsockname == 51
SYS_recvmsg == 47
SYS_getpeername == 52
SYS_setsockopt == 54
SYS_ppoll == 271
SYS_uname == 63
SYS_sendmsg == 46
SYS_sendmmsg == 307
SYS_getsockopt == 55
SYS_fstat == 5
SYS_fcntl == 72
SYS_fstatfs == 138
SYS_poll == 7
SYS_epoll_pwait == 281
SYS_chroot == 161
SYS_chdir == 80
SYS_prctl == 157
SYS_seccomp == 317

ALLOW_SYSCALLS ==
    <<
       SYS_read, SYS_write, SYS_openat, SYS_close,
       SYS_newfstatat, SYS_ioctl, SYS_lseek, SYS_getdents64,
       SYS_futex, SYS_mmap, SYS_brk, SYS_mprotect,
       SYS_munmap, SYS_rt_sigreturn, SYS_mremap, SYS_setuid,
       SYS_setgid, SYS_getuid, SYS_getpid, SYS_getppid,
       SYS_gettid, SYS_exit, SYS_exit_group, SYS_tgkill,
       SYS_rt_sigaction, SYS_sched_yield, SYS_set_robust_list, SYS_get_robust_list,
       SYS_rseq, SYS_clock_gettime, SYS_gettimeofday, SYS_nanosleep,
       SYS_epoll_create1, SYS_epoll_ctl, SYS_clock_nanosleep, SYS_pselect6,
       SYS_rt_sigprocmask, SYS_sigaltstack, SYS_getrandom
    >>

ALLOW_ERROR_SYSCALLS ==
    << SYS_clone, SYS_mkdirat, SYS_mkdir >>

\* mutant: a network table that lists an entry of the error table
ALLOW_NETWORK_SYSCALLS_with_clone ==
    << SYS_socket, SYS_connect, SYS_clone >>

ALLOW_NETWORK_SYSCALLS ==
    <<
       SYS_socket, SYS_connect, SYS_bind, SYS_listen,
       SYS_accept, SYS_sendto, SYS_recvfrom, SYS_getsockname,
       SYS_recvmsg, SYS_getpeername, SYS_setsockopt, SYS_ppoll,
       SYS_uname, SYS_sendmsg, SYS_sendmmsg, SYS_getsockopt,
       SYS_fstat, SYS_fcntl, SYS_fstatfs, SYS_poll,
       SYS_epoll_pwait
    >>

(***************************************************************************)
(* Bounds of the model.                                                    *)
(***************************************************************************)
\* longest ALLOWED_SYSCALLS value, in comma-separated tokens, given to a
\* direct call of get_allowed_syscalls
MaxTokens == 3
\* longest ALLOWED_SYSCALLS value, in tokens, in a run of init_seccomp
MaxEnvTokens == 2

(***************************************************************************)
(* Strings are sequences of one-character strings.                         *)
(***************************************************************************)
I32_MAX == 2147483647
I32_MIN == (-I32_MAX) - 1

Digits == {"0", "1", "2", "3", "4", "5", "6", "7", "8", "9"}

DigitVal(c) ==
    CASE c = "0" -> 0 [] c = "1" -> 1 [] c = "2" -> 2 [] c = "3" -> 3
      [] c = "4" -> 4 [] c = "5" -> 5 [] c = "6" -> 6 [] c = "7" -> 7
      [] c = "8" -> 8 [] c = "9" -> 9

\* str::split(','): the pieces between commas, empty pieces kept
RECURSIVE SplitComma(_, _, _)
SplitComma(s, i, cur) ==
    IF i > Len(s) THEN << cur >>
    ELSE IF s[i] = "," THEN << cur >> \o SplitComma(s, i + 1, << >>)
    ELSE SplitComma(s, i + 1, Append(cur, s[i]))

split(s) == SplitComma(s, 1, << >>)

\* the digit loop of i32::from_str: checked multiply by ten, then checked
\* add (positive) or checked subtract (negative); an invalid digit or an
\* overflow is ok = FALSE
RECURSIVE ParseDigits(_, _, _, _)
ParseDigits(s, i, acc, positive) ==
    IF i > Len(s) THEN [ok |-> TRUE, val |-> acc]
    ELSE IF s[i] \notin Digits THEN [ok |-> FALSE, val |-> 0]
    ELSE LET d == DigitVal(s[i]) IN
         IF positive
         THEN IF acc > (I32_MAX - d) \div 10
              THEN [ok |-> FALSE, val |-> 0]
              ELSE ParseDigits(s, i + 1, acc * 10 + d, positive)
         ELSE IF acc < (I32_MIN + d + 9) \div 10
              THEN [ok |-> FALSE, val |-> 0]
              ELSE ParseDigits(s, i + 1, acc * 10 - d, positive)

\* i32::from_str: an optional sign, then at least one decimal digit, no
\* blanks, the value in the range of i32
i32_from_str(s) ==
    IF Len(s) = 0 THEN [ok |-> FALSE, val |-> 0]
    ELSE IF s[1] \in {"+", "-"}
         THEN IF Len(s) = 1 THEN [ok |-> FALSE, val |-> 0]
              ELSE ParseDigits(s, 2, 0, s[1] = "+")
         ELSE ParseDigits(s, 1, 0, TRUE)

\* the loop over env_val.split(','): the parsable tokens, in order
RECURSIVE parse_tokens(_, _)
parse_tokens(toks, i) ==
    IF i > Len(toks) THEN << >>
    ELSE LET r == i32_from_str(toks[i]) IN
         (IF r.ok THEN << r.val >> ELSE << >>) \o parse_tokens(toks, i + 1)

(***************************************************************************)
(* The ALLOWED_SYSCALLS environment variable: env::var is Ok(val) when     *)
(* present, Err when unset.                                                *)
(***************************************************************************)
EnvUnset == [present |-> FALSE, val |-> << >>]
EnvSet(s) == [present |-> TRUE, val |-> s]

override_syscalls(env) ==
    IF env.present /\ Len(env.val) > 0
    THEN parse_tokens(split(env.val), 1)
    ELSE << >>

\* mutant: the network extension is put before the baseline
default_syscalls_network_first(enable_network) ==
    IF enable_network
    THEN ALLOW_NETWORK_SYSCALLS \o ALLOW_SYSCALLS
    ELSE ALLOW_SYSCALLS

default_syscalls(enable_network) ==
    IF enable_network
    THEN ALLOW_SYSCALLS \o ALLOW_NETWORK_SYSCALLS
    ELSE ALLOW_SYSCALLS

\* mutant: the error-list is filled only on the fallback to the defaults
get_allowed_syscalls_errors_on_fallback(env, enable_network) ==
    LET from_env == override_syscalls(env) IN
    IF Len(from_env) = 0
    THEN << default_syscalls(enable_network), ALLOW_ERROR_SYSCALLS >>
    ELSE << from_env, << >> >>

\* mutant: the defaults are appended whether or not the override gave entries
get_allowed_syscalls_merged(env, enable_network) ==
    << override_syscalls(env) \o default_syscalls(enable_network),
       ALLOW_ERROR_SYSCALLS >>

\* get_allowed_syscalls(enable_network), reading ALLOWED_SYSCALLS = env:
\* << allowed_syscalls, allowed_not_kill_syscalls >>
get_allowed_syscalls(env, enable_network) ==
    LET from_env == override_syscalls(env) IN
    << IF Len(from_env) = 0 THEN default_syscalls(enable_network) ELSE from_env,
       ALLOW_ERROR_SYSCALLS >>

(***************************************************************************)
(* Inputs.                                                                 *)
(***************************************************************************)
\* tokens of an ALLOWED_SYSCALLS value: "0", "1", "2", "abc", "", "-1",
\* "+2", "56" (clone, an ALLOW_ERROR_SYSCALLS entry), "2147483648"
TokenPool ==
    { <<"0">>, <<"1">>, <<"2">>, <<"a", "b", "c">>, << >>, <<"-", "1">>,
      <<"+", "2">>, <<"5", "6">>,
      <<"2", "1", "4", "7", "4", "8", "3", "6", "4", "8">> }

\* tokens of the values used in whole runs of init_seccomp: "0" (read),
\* "41" (socket), "56" (clone), "abc", ""
RunTokenPool ==
    { <<"0">>, <<"4", "1">>, <<"5", "6">>, <<"a", "b", "c">>, << >> }

RECURSIVE Join(_, _)
Join(toks, i) ==
    IF i > Len(toks) THEN << >>
    ELSE IF i = Len(toks) THEN toks[i]
    ELSE toks[i] \o <<",">> \o Join(toks, i + 1)

TokenSeqs(pool, n) == UNION { [1..k -> pool] : k \in 1..n }

EnvValues(pool, n) ==
    {EnvUnset} \cup { EnvSet(Join(ts, 1)) : ts \in TokenSeqs(pool, n) }

Uids == {1000, 1001}
Gids == {1000, 1001}
\* enable_network is a C int; the code tests enable_network != 0
NetworkFlags == {0, 1, 2}
StartDirs == {"/srv/sandbox", "/tmp/job"}
\* syscalls the sandboxed code attempts after init_seccomp has returned
ProbeSyscalls == {SYS_read, SYS_socket, SYS_clone, SYS_mkdir, SYS_chroot}

(***************************************************************************)
(* State.                                                                  *)
(***************************************************************************)
VARIABLES
    uid, gid, enable_network,   \* arguments of init_seccomp
    env,                        \* ALLOWED_SYSCALLS in the environment
    pc,                         \* the next step of the call
    ret,                        \* << status >> once returned, << >> before
    fsRoot, cwd,                \* the process's root and working directory
    startDir,                   \* the working directory before the call
    nnp,                        \* the no-new-privileges attribute
    euid, egid,                 \* effective user and group
    ctx,                        \* filter context: uninit, null, live, released
    ctxRules,                   \* the rules added to the context, in order
    releases,                   \* number of seccomp_release calls
    ctxLog,                     \* what was done with the context, in order
    allowed_syscalls,           \* locals of install_seccomp /
    allowed_not_kill_syscalls,  \*   result of a direct call
    idx,                        \* position of the rule-add loops
    filterActive, kernelFilter, \* the filter loaded in the kernel
    alive,                      \* the process has not been killed
    lastSyscall,                \* the last syscall attempted after the call
    lastSetgid,                 \* the last setgid attempted after the call
    filterAtCall,               \* a filter was active when the call began
    log                         \* the OS and library calls made, in order

vars ==
    << uid, gid, enable_network, env, pc, ret, fsRoot, cwd, startDir, nnp,
       euid, egid, ctx, ctxRules, releases, ctxLog, allowed_syscalls,
       allowed_not_kill_syscalls, idx, filterActive, kernelFilter, alive,
       lastSyscall, lastSetgid, filterAtCall, log >>

args == << uid, gid, enable_network, env, startDir >>
fsVars == << fsRoot, cwd >>
idVars == << euid, egid >>
ctxVars == << ctx, ctxRules, releases, ctxLog >>
policyVars == << allowed_syscalls, allowed_not_kill_syscalls, idx >>
kernelVars == << filterActive, kernelFilter >>
afterVars == << alive, lastSyscall, lastSetgid >>

NoSyscall == [sc |-> -1, result |-> "none"]
NoSetgid == [gid |-> -1, euid |-> -1, from |-> -1, result |-> "none"]

ProcessStart ==
    /\ uid \in Uids
    /\ gid \in Gids
    /\ enable_network \in NetworkFlags
    /\ startDir \in StartDirs
    /\ ret = << >>
    /\ fsRoot = "/"
    /\ cwd = startDir
    /\ nnp = FALSE
    /\ euid = 0
    /\ egid = 0
    /\ ctx = "uninit"
    /\ ctxRules = << >>
    /\ releases = 0
    /\ ctxLog = << >>
    /\ allowed_syscalls = << >>
    /\ allowed_not_kill_syscalls = << >>
    /\ idx = 0
    /\ filterActive = FALSE
    /\ kernelFilter = << >>
    /\ alive = TRUE
    /\ lastSyscall = NoSyscall
    /\ lastSetgid = NoSetgid
    /\ filterAtCall = FALSE
    /\ log = << >>

\* a privileged process about to call init_seccomp(uid, gid, enable_network)
Init ==
    /\ ProcessStart
    /\ env \in EnvValues(RunTokenPool, MaxEnvTokens)
    /\ pc = "chroot"

Call(step, ok) == [step |-> step, ok |-> ok, sc |-> -1]
RuleAdd(step, ok, sc) == [step |-> step, ok |-> ok, sc |-> sc]

\* mutant: setup_root's second failure reuses the code of its first
FailureCode_chdir_as_chroot(step) ==
    CASE step = "chroot" -> -1
      [] step = "chdir" -> -1
      [] step = "prctl" -> -3
      [] step = "setgid" -> -4
      [] step = "setuid" -> -5
      [] step = "seccomp_init" -> -6
      [] step = "rule_add_allow" -> -7
      [] step = "rule_add_error" -> -8
      [] step = "seccomp_load" -> -9

\* the Err(code) of each failable step, which init_seccomp returns as it is
FailureCode(step) ==
    CASE step = "chroot" -> -1
      [] step = "chdir" -> -2
      [] step = "prctl" -> -3
      [] step = "setgid" -> -4
      [] step = "setuid" -> -5
      [] step = "seccomp_init" -> -6
      [] step = "rule_add_allow" -> -7
      [] step = "rule_add_error" -> -8
      [] step = "seccomp_load" -> -9

\* init_seccomp returns code: nothing else is done
Return(code) ==
    /\ ret' = << code >>
    /\ pc' = "returned"

ALLOW == "SCMP_ACT_ALLOW"
ERRNO_EPERM == "SCMP_ACT_ERRNO(EPERM)"
KILL_PROCESS == "SCMP_ACT_KILL_PROCESS"

Rule(sc, action) == [sc |-> sc, action |-> action]

(***************************************************************************)
(* The kernel's filter, once loaded: the action of a rule for the syscall, *)
(* the default action when it has none.  Which rule decides when a syscall *)
(* has rules with different actions is libseccomp's choice, not the        *)
(* caller's: every such rule's action is a possible outcome.               *)
(***************************************************************************)
\* mutant: a filter created with the permission error as default action
FilterActions_default_eperm(sc) ==
    IF ~filterActive THEN {ALLOW}
    ELSE LET acts == { kernelFilter[k].action :
                         k \in { j \in 1..Len(kernelFilter) :
                                   kernelFilter[j].sc = sc } }
         IN  IF acts = {} THEN {ERRNO_EPERM} ELSE acts

FilterActions(sc) ==
    IF ~filterActive THEN {ALLOW}
    ELSE LET acts == { kernelFilter[k].action :
                         k \in { j \in 1..Len(kernelFilter) :
                                   kernelFilter[j].sc = sc } }
         IN  IF acts = {} THEN {KILL_PROCESS} ELSE acts

Outcome(action) ==
    CASE action = ALLOW -> "executed"
      [] action = ERRNO_EPERM -> "eperm"
      [] action = KILL_PROCESS -> "killed"

\* the results a syscall made by the process itself can have: it succeeds
\* only if the filter lets it execute and the kernel permits it; it fails if
\* the filter answers it with the error, or lets it execute and it fails
SyscallResults(sc, permitted) ==
    { ok \in BOOLEAN :
        /\ ok => (ALLOW \in FilterActions(sc) /\ permitted)
        /\ ~ok => (FilterActions(sc) \cap {ALLOW, ERRNO_EPERM} # {}) }

\* setgid(g) is permitted to a privileged process; an unprivileged one can
\* only name the group it already has
CanSetGroup(g) == euid = 0 \/ g = egid

(***************************************************************************)
(* setup_root                                                              *)
(***************************************************************************)
\* chroot("."): the root becomes the current working directory
setup_root_chroot ==
    /\ pc = "chroot"
    /\ \E ok \in SyscallResults(SYS_chroot, TRUE) :
         /\ log' = Append(log, Call("chroot", ok))
         /\ IF ok
            THEN /\ fsRoot' = cwd
                 /\ pc' = "chdir"
                 /\ UNCHANGED ret
            ELSE /\ Return(FailureCode("chroot"))
                 /\ UNCHANGED fsRoot
    /\ UNCHANGED << args, filterAtCall, cwd, nnp, idVars, ctxVars, policyVars, kernelVars,
                    afterVars >>

\* chdir("/"): the working directory becomes the root
setup_root_chdir ==
    /\ pc = "chdir"
    /\ \E ok \in SyscallResults(SYS_chdir, TRUE) :
         /\ log' = Append(log, Call("chdir", ok))
         /\ IF ok
            THEN /\ cwd' = fsRoot
                 /\ pc' = "prctl"
                 /\ UNCHANGED ret
            ELSE /\ Return(FailureCode("chdir"))
                 /\ UNCHANGED cwd
    /\ UNCHANGED << args, filterAtCall, fsRoot, nnp, idVars, ctxVars, policyVars,
                    kernelVars, afterVars >>

(***************************************************************************)
(* set_no_new_privs                                                        *)
(***************************************************************************)
\* mutant: the result of set_no_new_privs is not checked by init_seccomp
set_no_new_privs_unchecked ==
    /\ pc = "prctl"
    /\ \E ok \in SyscallResults(SYS_prctl, TRUE) :
         /\ log' = Append(log, Call("prctl", ok))
         /\ nnp' = (nnp \/ ok)
         /\ pc' = "setgid"
         /\ UNCHANGED ret
    /\ UNCHANGED << args, filterAtCall, fsVars, idVars, ctxVars, policyVars, kernelVars,
                    afterVars >>

set_no_new_privs ==
    /\ pc = "prctl"
    /\ \E ok \in SyscallResults(SYS_prctl, TRUE) :
         /\ log' = Append(log, Call("prctl", ok))
         /\ IF ok
            THEN /\ nnp' = TRUE
                 /\ pc' = "setgid"
                 /\ UNCHANGED ret
            ELSE /\ Return(FailureCode("prctl"))
                 /\ UNCHANGED nnp
    /\ UNCHANGED << args, filterAtCall, fsVars, idVars, ctxVars, policyVars, kernelVars,
                    afterVars >>

(***************************************************************************)
(* drop_privileges                                                         *)
(***************************************************************************)
\* mutant: the result of setgid is not looked at
drop_privileges_setgid_unchecked ==
    /\ pc = "setgid"
    /\ \E ok \in SyscallResults(SYS_setgid, CanSetGroup(gid)) :
         /\ log' = Append(log, Call("setgid", ok))
         /\ egid' = IF ok THEN gid ELSE egid
         /\ pc' = "setuid"
         /\ UNCHANGED ret
    /\ UNCHANGED << args, filterAtCall, fsVars, nnp, euid, ctxVars, policyVars, kernelVars,
                    afterVars >>

drop_privileges_setgid ==
    /\ pc = "setgid"
    /\ \E ok \in SyscallResults(SYS_setgid, CanSetGroup(gid)) :
         /\ log' = Append(log, Call("setgid", ok))
         /\ IF ok
            THEN /\ egid' = gid
                 /\ pc' = "setuid"
                 /\ UNCHANGED ret
            ELSE /\ Return(FailureCode("setgid"))
                 /\ UNCHANGED egid
    /\ UNCHANGED << args, filterAtCall, fsVars, nnp, euid, ctxVars, policyVars, kernelVars,
                    afterVars >>

\* mutant: a failed setuid restores the group of before the call
drop_privileges_setuid_rollback ==
    /\ pc = "setuid"
    /\ \E ok \in SyscallResults(SYS_setuid, TRUE) :
         /\ log' = Append(log, Call("setuid", ok))
         /\ IF ok
            THEN /\ euid' = uid
                 /\ pc' = "seccomp_init"
                 /\ UNCHANGED << ret, egid >>
            ELSE /\ Return(FailureCode("setuid"))
                 /\ egid' = 0
                 /\ UNCHANGED euid
    /\ UNCHANGED << args, filterAtCall, fsVars, nnp, ctxVars, policyVars, kernelVars,
                    afterVars >>

\* mutant: setuid is given the group id
drop_privileges_setuid_gid ==
    /\ pc = "setuid"
    /\ \E ok \in SyscallResults(SYS_setuid, TRUE) :
         /\ log' = Append(log, Call("setuid", ok))
         /\ IF ok
            THEN /\ euid' = gid
                 /\ pc' = "seccomp_init"
                 /\ UNCHANGED ret
            ELSE /\ Return(FailureCode("setuid"))
                 /\ UNCHANGED euid
    /\ UNCHANGED << args, filterAtCall, fsVars, nnp, egid, ctxVars, policyVars, kernelVars,
                    afterVars >>

drop_privileges_setuid ==
    /\ pc = "setuid"
    /\ \E ok \in SyscallResults(SYS_setuid, TRUE) :
         /\ log' = Append(log, Call("setuid", ok))
         /\ IF ok
            THEN /\ euid' = uid
                 /\ pc' = "seccomp_init"
                 /\ UNCHANGED ret
            ELSE /\ Return(FailureCode("setuid"))
                 /\ UNCHANGED euid
    /\ UNCHANGED << args, filterAtCall, fsVars, nnp, egid, ctxVars, policyVars, kernelVars,
                    afterVars >>

(***************************************************************************)
(* install_seccomp                                                         *)
(***************************************************************************)
\* seccomp_init(SCMP_ACT_KILL_PROCESS): a context, or null
install_seccomp_init ==
    /\ pc = "seccomp_init"
    /\ \E ok \in BOOLEAN :
         /\ log' = Append(log, Call("seccomp_init", ok))
         /\ IF ok
            THEN /\ ctx' = "live"
                 /\ ctxLog' = Append(ctxLog, "init")
                 /\ pc' = "get_allowed_syscalls"
                 /\ UNCHANGED ret
            ELSE /\ ctx' = "null"
                 /\ Return(FailureCode("seccomp_init"))
                 /\ UNCHANGED ctxLog
    /\ UNCHANGED << args, filterAtCall, fsVars, nnp, idVars, ctxRules, releases,
                    policyVars, kernelVars, afterVars >>

\* let (allowed_syscalls, allowed_not_kill_syscalls) = get_allowed_syscalls(..)
install_seccomp_resolve ==
    /\ pc = "get_allowed_syscalls"
    /\ LET r == get_allowed_syscalls(env, enable_network # 0) IN
         /\ allowed_syscalls' = r[1]
         /\ allowed_not_kill_syscalls' = r[2]
    /\ idx' = 1
    /\ pc' = "add_allowed"
    /\ UNCHANGED << args, filterAtCall, ret, fsVars, nnp, idVars, ctxVars, kernelVars,
                    afterVars, log >>

\* mutant: a failed seccomp_rule_add is skipped and the loop goes on
rule_add_loop_failure_ignored(list, action, step, next) ==
    IF idx <= Len(list)
    THEN \E ok \in BOOLEAN :
           /\ log' = Append(log, RuleAdd(step, ok, list[idx]))
           /\ ctxRules' = IF ok THEN Append(ctxRules, Rule(list[idx], action))
                          ELSE ctxRules
           /\ idx' = idx + 1
           /\ ctxLog' = Append(ctxLog, "rule_add")
           /\ UNCHANGED << pc, ret, ctx, releases >>
    ELSE /\ pc' = next
         /\ idx' = 1
         /\ UNCHANGED << ret, ctxVars, log >>

\* mutant: a failed seccomp_rule_add is tried again on the same entry
rule_add_loop_retry(list, action, step, next) ==
    IF idx <= Len(list)
    THEN \E ok \in BOOLEAN :
           /\ log' = Append(log, RuleAdd(step, ok, list[idx]))
           /\ ctxLog' = Append(ctxLog, "rule_add")
           /\ ctxRules' = IF ok THEN Append(ctxRules, Rule(list[idx], action))
                          ELSE ctxRules
           /\ idx' = IF ok THEN idx + 1 ELSE idx
           /\ UNCHANGED << pc, ret, ctx, releases >>
    ELSE /\ pc' = next
         /\ idx' = 1
         /\ UNCHANGED << ret, ctxVars, log >>

\* mutant: a failed seccomp_rule_add returns without seccomp_release
rule_add_loop_leak(list, action, step, next) ==
    IF idx <= Len(list)
    THEN \E ok \in BOOLEAN :
           /\ log' = Append(log, RuleAdd(step, ok, list[idx]))
           /\ ctxLog' = Append(ctxLog, "rule_add")
           /\ IF ok
              THEN /\ ctxRules' = Append(ctxRules, Rule(list[idx], action))
                   /\ idx' = idx + 1
                   /\ UNCHANGED << pc, ret, ctx, releases >>
              ELSE /\ Return(FailureCode(step))
                   /\ UNCHANGED << ctx, releases, ctxRules, idx >>
    ELSE /\ pc' = next
         /\ idx' = 1
         /\ UNCHANGED << ret, ctxVars, log >>

\* one turn of a rule-add loop over list: seccomp_rule_add(ctx, action, sc, 0)
\* on the entry at idx, and on failure seccomp_release(ctx) and Err(code of step);
\* past the last entry the loop ends and the code goes on at next
rule_add_loop(list, action, step, next) ==
    IF idx <= Len(list)
    THEN \E ok \in BOOLEAN :
           /\ log' = Append(log, RuleAdd(step, ok, list[idx]))
           /\ IF ok
              THEN /\ ctxRules' = Append(ctxRules, Rule(list[idx], action))
                   /\ idx' = idx + 1
                   /\ ctxLog' = Append(ctxLog, "rule_add")
                   /\ UNCHANGED << pc, ret, ctx, releases >>
              ELSE /\ ctx' = "released"
                   /\ releases' = releases + 1
                   /\ ctxLog' = ctxLog \o << "rule_add", "release" >>
                   /\ Return(FailureCode(step))
                   /\ UNCHANGED << ctxRules, idx >>
    ELSE /\ pc' = next
         /\ idx' = 1
         /\ UNCHANGED << ret, ctxVars, log >>

\* for &sc in &allowed_syscalls
install_seccomp_add_allowed ==
    /\ pc = "add_allowed"
    /\ rule_add_loop(allowed_syscalls, ALLOW, "rule_add_allow", "add_error")
    /\ UNCHANGED << args, filterAtCall, fsVars, nnp, idVars, allowed_syscalls,
                    allowed_not_kill_syscalls, kernelVars, afterVars >>

\* mutant: the second loop adds its rules with the action of the first
install_seccomp_add_error_as_allow ==
    /\ pc = "add_error"
    /\ rule_add_loop(allowed_not_kill_syscalls, ALLOW, "rule_add_error",
                     "load")
    /\ UNCHANGED << args, filterAtCall, fsVars, nnp, idVars, allowed_syscalls,
                    allowed_not_kill_syscalls, kernelVars, afterVars >>

\* for &sc in &allowed_not_kill_syscalls
install_seccomp_add_error ==
    /\ pc = "add_error"
    /\ rule_add_loop(allowed_not_kill_syscalls, ERRNO_EPERM, "rule_add_error",
                     "load")
    /\ UNCHANGED << args, filterAtCall, fsVars, nnp, idVars, allowed_syscalls,
                    allowed_not_kill_syscalls, kernelVars, afterVars >>

\* seccomp_load(ctx), then seccomp_release(ctx) on either outcome; a loaded
\* filter is the kernel's own copy of the context's rules
install_seccomp_load ==
    /\ pc = "load"
    /\ \E ok \in SyscallResults(SYS_seccomp, TRUE) :
         /\ log' = Append(log, Call("seccomp_load", ok))
         /\ IF ok
            THEN /\ filterActive' = TRUE
                 /\ kernelFilter' = ctxRules
                 /\ Return(0)
            ELSE /\ UNCHANGED kernelVars
                 /\ Return(FailureCode("seccomp_load"))
    /\ ctx' = "released"
    /\ releases' = releases + 1
    /\ ctxLog' = ctxLog \o << "load", "release" >>
    /\ UNCHANGED << args, filterAtCall, fsVars, nnp, idVars, ctxRules, policyVars,
                    afterVars >>

\* the code running after init_seccomp has returned attempts syscall sc
Syscall ==
    /\ pc = "returned"
    /\ alive
    /\ \E sc \in ProbeSyscalls : \E a \in FilterActions(sc) :
         /\ lastSyscall' = [sc |-> sc, result |-> Outcome(a)]
         /\ alive' = (a # KILL_PROCESS)
    /\ UNCHANGED lastSetgid
    /\ UNCHANGED << args, filterAtCall, pc, ret, fsVars, nnp, idVars, ctxVars, policyVars,
                    kernelVars, log >>

Next ==
    \/ setup_root_chroot
    \/ setup_root_chdir
    \/ set_no_new_privs
    \/ drop_privileges_setgid
    \/ drop_privileges_setuid
    \/ install_seccomp_init
    \/ install_seccomp_resolve
    \/ install_seccomp_add_allowed
    \/ install_seccomp_add_error
    \/ install_seccomp_load
    \/ Syscall

Spec == Init /\ [][Next]_vars

\* the steps of the call itself: init_seccomp is sequential and synchronous,
\* each step a non-blocking kernel or library call after which control goes on
CallStep ==
    \/ setup_root_chroot
    \/ setup_root_chdir
    \/ set_no_new_privs
    \/ drop_privileges_setgid
    \/ drop_privileges_setuid
    \/ install_seccomp_init
    \/ install_seccomp_resolve
    \/ install_seccomp_add_allowed
    \/ install_seccomp_add_error
    \/ install_seccomp_load

SpecFair == Init /\ [][Next]_vars /\ WF_vars(CallStep)

(***************************************************************************)
(* The process beyond its first call: init_seccomp called again, which the *)
(* code does not prevent, and the code that runs after the call changing   *)
(* its group.                                                              *)
(***************************************************************************)
\* the syscall made at each step of the call that makes one
StepSyscall ==
    [ chroot |-> SYS_chroot, chdir |-> SYS_chdir, prctl |-> SYS_prctl,
      setgid |-> SYS_setgid, setuid |-> SYS_setuid, load |-> SYS_seccomp ]

\* a step's syscall is answered by the active filter with the default action:
\* the process is killed inside the call and nothing is returned
killed_in_call ==
    /\ pc \in DOMAIN StepSyscall
    /\ alive
    /\ KILL_PROCESS \in FilterActions(StepSyscall[pc])
    /\ alive' = FALSE
    /\ pc' = "killed"
    /\ UNCHANGED << args, filterAtCall, ret, fsVars, nnp, idVars, ctxVars,
                    policyVars, kernelVars, lastSyscall, lastSetgid, log >>

\* init_seccomp(uid, gid, enable_network) is called again: a new call with
\* its own locals, on the process state the earlier calls left
init_seccomp_again ==
    /\ pc = "returned"
    /\ alive
    /\ filterAtCall' = filterActive
    /\ pc' = "chroot"
    /\ ret' = << >>
    /\ log' = << >>
    /\ ctx' = "uninit"
    /\ ctxRules' = << >>
    /\ releases' = 0
    /\ ctxLog' = << >>
    /\ allowed_syscalls' = << >>
    /\ allowed_not_kill_syscalls' = << >>
    /\ idx' = 0
    /\ UNCHANGED << args, fsVars, nnp, idVars, kernelVars, afterVars >>

\* the code running after the call attempts setgid(g)
setgid_after_return ==
    /\ pc = "returned"
    /\ alive
    /\ \E g \in Gids \cup {0} : \E a \in FilterActions(SYS_setgid) :
         \E ok \in { b \in BOOLEAN : b => (a = ALLOW /\ CanSetGroup(g)) } :
           /\ lastSetgid' =
                [ gid |-> g, euid |-> euid, from |-> egid,
                  result |-> IF ok THEN "done"
                             ELSE IF a = ALLOW THEN "failed"
                             ELSE Outcome(a) ]
           /\ egid' = IF ok THEN g ELSE egid
           /\ alive' = (a # KILL_PROCESS)
    /\ UNCHANGED << args, filterAtCall, pc, ret, fsVars, nnp, euid, ctxVars,
                    policyVars, kernelVars, lastSyscall, log >>

\* the process with init_seccomp called any number of times
NextAgain ==
    \/ CallStep
    \/ killed_in_call
    \/ init_seccomp_again

SpecAgain == Init /\ [][NextAgain]_vars

\* the process with one call and the code after it changing its group
NextAfter ==
    \/ CallStep
    \/ setgid_after_return

SpecAfter == Init /\ [][NextAfter]_vars

(***************************************************************************)
(* A direct call of the public function get_allowed_syscalls.              *)
(***************************************************************************)
InitResolver ==
    /\ ProcessStart
    /\ env \in EnvValues(TokenPool, MaxTokens)
    /\ pc = "call_get_allowed_syscalls"

call_get_allowed_syscalls ==
    /\ pc = "call_get_allowed_syscalls"
    /\ LET r == get_allowed_syscalls(env, enable_network # 0) IN
         /\ allowed_syscalls' = r[1]
         /\ allowed_not_kill_syscalls' = r[2]
    /\ pc' = "resolved"
    /\ UNCHANGED << args, filterAtCall, ret, fsVars, nnp, idVars, ctxVars, idx, kernelVars,
                    afterVars, log >>

NextResolver == call_get_allowed_syscalls

SpecResolver == InitResolver /\ [][NextResolver]_vars

(***************************************************************************)
(* Properties.                                                             *)
(***************************************************************************)
Returned == pc = "returned"
Last(q) == q[Len(q)]

\* the place of each OS or library call in the fixed order
StepRank(step) ==
    CASE step = "chroot" -> 1
      [] step = "chdir" -> 2
      [] step = "prctl" -> 3
      [] step = "setgid" -> 4
      [] step = "setuid" -> 5
      [] step = "seccomp_init" -> 6
      [] step = "rule_add_allow" -> 7
      [] step = "rule_add_error" -> 8
      [] step = "seccomp_load" -> 9

FailableSteps ==
    { "chroot", "chdir", "prctl", "setgid", "setuid", "seccomp_init",
      "rule_add_allow", "rule_add_error", "seccomp_load" }

RuleAddSteps == {"rule_add_allow", "rule_add_error"}

RootRestricted == fsRoot = startDir /\ cwd = fsRoot
PrivilegeBlocked == nnp
IdentityDropped == egid = gid /\ euid = uid

\* Unrestricted 0, RootRestricted 1, PrivilegeBlocked 2, IdentityDropped 3,
\* FilterInstalled 4
SandboxState ==
    IF filterActive THEN 4
    ELSE IF IdentityDropped THEN 3
    ELSE IF PrivilegeBlocked THEN 2
    ELSE IF RootRestricted THEN 1
    ELSE 0

\* the calls made so far follow the fixed order with none left out, each was
\* made after the success of all before it, and a failed call is the last
C1_CallsInOrder ==
    /\ Len(log) > 0 => log[1].step = "chroot"
    /\ \A k \in 1..(Len(log) - 1) :
         /\ log[k].ok
         /\ \/ StepRank(log[k + 1].step) = StepRank(log[k].step) + 1
            \/ /\ log[k + 1].step = log[k].step
               /\ log[k].step \in RuleAddSteps
    /\ (Len(log) > 0 /\ ~Last(log).ok) => Returned

\* a later stage of the sandbox is reached only with the earlier ones
C1_NoStageSkipped ==
    /\ filterActive => IdentityDropped
    /\ IdentityDropped => PrivilegeBlocked
    /\ PrivilegeBlocked => RootRestricted

\* C1: the OS steps of init_seccomp are attempted in the fixed order chroot,
\* chdir, prctl, setgid, setuid, filter install (context init, rule adds,
\* load), each only after every earlier one succeeded and none after the
\* first failure; the sandbox state moves only forward, one stage at a time.
C1_FixedOrderFailFast ==
    /\ [](C1_CallsInOrder /\ C1_NoStageSkipped)
    /\ [][SandboxState' \in {SandboxState, SandboxState + 1}]_vars

\* a call that failed at setuid, after four successful steps
C1_Witness ==
    /\ Returned
    /\ Len(log) = 5
    /\ Last(log) = Call("setuid", FALSE)
    /\ SandboxState = 2

\* C2: init_seccomp returns 0 exactly when all nine failable steps succeeded;
\* otherwise it returns a negative code that belongs to the first failing
\* step and to no other step.
C2_StatusIdentifiesStep ==
    Returned =>
      /\ Len(ret) = 1
      /\ Len(log) > 0
      /\ ret = << 0 >> <=>
           /\ \A k \in 1..Len(log) : log[k].ok
           /\ { log[k].step : k \in 1..Len(log) } = FailableSteps
      /\ ret # << 0 >> =>
           /\ ret[1] < 0
           /\ ~Last(log).ok
           /\ \A k \in 1..(Len(log) - 1) : log[k].ok
           /\ \A step \in FailableSteps :
                FailureCode(step) = ret[1] <=> step = Last(log).step

\* a call that failed at chdir and returned its code
C2_Witness ==
    /\ Returned
    /\ Last(log) = Call("chdir", FALSE)
    /\ ret = << -2 >>

\* C3: whenever init_seccomp returns 0 the root is the working directory of
\* before the call and the working directory is that root, no-new-privileges
\* is set, the effective group is gid and the effective user is uid, and the
\* filter is active; and in every state the filter is active only if root
\* restriction, escalation block and identity drop have all succeeded.
C3_SuccessPostcondition ==
    /\ (Returned /\ ret = << 0 >>) =>
         /\ fsRoot = startDir
         /\ cwd = fsRoot
         /\ nnp
         /\ egid = gid
         /\ euid = uid
         /\ filterActive
    /\ filterActive =>
         /\ RootRestricted
         /\ PrivilegeBlocked
         /\ IdentityDropped

\* a successful call with different user and group ids
C3_Witness ==
    /\ Returned
    /\ ret = << 0 >>
    /\ uid # gid
    /\ filterActive

Resolved == pc = "resolved"
Flag == enable_network # 0
OverridePresent == env.present /\ Len(env.val) > 0

\* C4: when ALLOWED_SYSCALLS is present and non-empty the network flag is
\* ignored: the allow-list is the integer-parsable tokens in order, the same
\* for enable_network true and false.
C4_OverrideIgnoresNetworkFlag ==
    (Resolved /\ OverridePresent) =>
      /\ allowed_syscalls = parse_tokens(split(env.val), 1)
      /\ get_allowed_syscalls(env, ~Flag)[1] = allowed_syscalls

\* C5: a non-empty ALLOWED_SYSCALLS without any parsable token takes
\* precedence over the defaults: the allow-list is empty, and the installed
\* filter kills every syscall that is not in the error-list and answers the
\* error-list ones with the permission-denied error.
C5_UnparsableOverrideGivesEmptyList ==
    (OverridePresent /\ parse_tokens(split(env.val), 1) = << >>) =>
      /\ pc \in {"add_allowed", "add_error", "load"} =>
           allowed_syscalls = << >>
      /\ (Returned /\ ret = << 0 >>) =>
           /\ allowed_syscalls = << >>
           /\ lastSyscall # NoSyscall =>
                lastSyscall.result =
                  IF \E k \in 1..Len(allowed_not_kill_syscalls) :
                       allowed_not_kill_syscalls[k] = lastSyscall.sc
                  THEN "eperm"
                  ELSE "killed"

\* C6: with ALLOWED_SYSCALLS unset or present but empty the allow-list is the
\* baseline table in table order, followed by the network table in table
\* order exactly when enable_network is set.
C6_DefaultsWhenNoOverride ==
    (Resolved /\ ~OverridePresent) =>
      allowed_syscalls =
        IF Flag THEN ALLOW_SYSCALLS \o ALLOW_NETWORK_SYSCALLS
        ELSE ALLOW_SYSCALLS

\* ALLOWED_SYSCALLS present but empty, networking enabled
C6_Witness ==
    /\ Resolved
    /\ env = EnvSet(<< >>)
    /\ enable_network = 1
    /\ Len(allowed_syscalls) = Len(ALLOW_SYSCALLS) + Len(ALLOW_NETWORK_SYSCALLS)

\* C7: the error-list is the ALLOW_ERROR_SYSCALLS table in table order for
\* every ALLOWED_SYSCALLS value and both values of enable_network.
C7_ErrorListFixed ==
    Resolved => allowed_not_kill_syscalls = << SYS_clone, SYS_mkdirat, SYS_mkdir >>

\* an override with a malformed token, networking enabled
C7_Witness ==
    /\ Resolved
    /\ env = EnvSet(<<"0", ",", "a", "b", "c">>)
    /\ enable_network = 1
    /\ allowed_syscalls = << 0 >>
    /\ allowed_not_kill_syscalls = ALLOW_ERROR_SYSCALLS

\* C8: the allow-list is never a merge: it is the parsed override tokens, or
\* the baseline, or the baseline followed by the network extension.
C8_NeverMerged ==
    Resolved =>
      \/ /\ OverridePresent
         /\ allowed_syscalls = parse_tokens(split(env.val), 1)
      \/ allowed_syscalls = ALLOW_SYSCALLS
      \/ allowed_syscalls = ALLOW_SYSCALLS \o ALLOW_NETWORK_SYSCALLS

\* an override with parsable and unparsable tokens
C8_Witness ==
    /\ Resolved
    /\ env = EnvSet(<<"a", "b", "c", ",", "1", ",", "5", "6">>)
    /\ allowed_syscalls = << 1, 56 >>

InList(sc, list) == \E k \in 1..Len(list) : list[k] = sc

Attempted == lastSyscall # NoSyscall

\* the end-to-end scenario: uid 1000, gid 1000, no networking, no override
DefaultScenario ==
    /\ uid = 1000
    /\ gid = 1000
    /\ enable_network = 0
    /\ ~env.present

OkAdds(step) ==
    SelectSeq(log, LAMBDA e : e.step = step /\ e.ok)

ScOf(q) == [k \in 1..Len(q) |-> q[k].sc]

LoadAttempted == \E k \in 1..Len(log) : log[k].step = "seccomp_load"

\* C10: seccomp_load is attempted only after a rule was added for every entry
\* of the allow-list and then of the error-list; after a failed rule add it is
\* never attempted; the filter is active exactly if the load succeeded, and
\* never when init_seccomp returns a non-zero status.
C10_NoPartialActivation ==
    /\ (pc = "load" \/ LoadAttempted) =>
         /\ ScOf(OkAdds("rule_add_allow")) = allowed_syscalls
         /\ ScOf(OkAdds("rule_add_error")) = allowed_not_kill_syscalls
         /\ [k \in 1..Len(ctxRules) |-> ctxRules[k].sc]
              = allowed_syscalls \o allowed_not_kill_syscalls
    /\ (\E k \in 1..Len(log) : log[k].step \in RuleAddSteps /\ ~log[k].ok) =>
         (~LoadAttempted /\ pc # "load")
    /\ filterActive <=>
         (\E k \in 1..Len(log) : log[k] = Call("seccomp_load", TRUE))
    /\ filterActive => kernelFilter = ctxRules
    /\ (Returned /\ ret # << 0 >>) => ~filterActive

\* an error-list rule add failed after the allow rules were added: nothing is
\* loaded
C10_Witness ==
    /\ Returned
    /\ ret = << -8 >>
    /\ Len(ctxRules) >= Len(allowed_syscalls)
    /\ Len(allowed_syscalls) > 0
    /\ ~filterActive
    /\ ~LoadAttempted

ContextCreated == \E k \in 1..Len(log) : log[k] = Call("seccomp_init", TRUE)

Count(q, x) == Cardinality({ k \in 1..Len(q) : q[k] = x })

\* C11: the filter context is released exactly once on every exit path of
\* install_seccomp on which seccomp_init succeeded (allow-rule failure,
\* error-rule failure, load failure, success), never when seccomp_init
\* failed, and it is never used (rule add or load) after its release.
C11_ContextReleasedOnce ==
    /\ (Returned /\ ContextCreated) =>
         /\ releases = 1
         /\ Count(ctxLog, "release") = 1
         /\ ctx = "released"
    /\ ~ContextCreated =>
         /\ releases = 0
         /\ ctxLog = << >>
         /\ ctx \in {"uninit", "null"}
    /\ ~Returned => releases = 0
    /\ \A k \in 1..Len(ctxLog) :
         /\ ctxLog[k] = "release" => k = Len(ctxLog)
         /\ ctxLog[k] = "init" <=> k = 1

\* an error-rule add failed after allow rules were added: one release
C11_Witness ==
    /\ Returned
    /\ ret = << -8 >>
    /\ releases = 1
    /\ Len(ctxLog) > 3
    /\ Last(ctxLog) = "release"

\* the number of steps that succeeded before the call returned: the rank of
\* the failing step less one
StepsDone == StepRank(Last(log).step) - 1

\* C12: when init_seccomp fails at a step, the effect of every step before it
\* is still there when it has returned (after a setuid failure, code -5, the
\* root is restricted, no-new-privileges is set and the group is gid; after a
\* filter failure, codes -6 to -9, the identity is (uid, gid)), and no step
\* after it has had an effect.
C12_NoRollback ==
    (Returned /\ ret # << 0 >>) =>
      /\ fsRoot = (IF StepsDone >= 1 THEN startDir ELSE "/")
      /\ cwd = (IF StepsDone >= 2 THEN fsRoot ELSE startDir)
      /\ nnp = (StepsDone >= 3)
      /\ egid = (IF StepsDone >= 4 THEN gid ELSE 0)
      /\ euid = (IF StepsDone >= 5 THEN uid ELSE 0)
      /\ ~filterActive
      /\ kernelFilter = << >>
      /\ ret = << -5 >> => (RootRestricted /\ nnp /\ egid = gid /\ euid = 0)
      /\ ret[1] \in {-6, -7, -8, -9} =>
           (RootRestricted /\ nnp /\ egid = gid /\ euid = uid)

\* setuid failed: the root is restricted, no-new-privileges is set, the group
\* is already gid and the user is still root
C12_Witness ==
    /\ Returned
    /\ ret = << -5 >>
    /\ fsRoot = startDir
    /\ cwd = fsRoot
    /\ nnp
    /\ egid = gid
    /\ euid = 0

OnceSteps ==
    { "chroot", "chdir", "prctl", "setgid", "setuid", "seccomp_init",
      "seccomp_load" }

Attempts(step) == SelectSeq(log, LAMBDA e : e.step = step)

IsPrefix(q, list) ==
    /\ Len(q) <= Len(list)
    /\ \A k \in 1..Len(q) : q[k] = list[k]

StatusCodes == { 0, -1, -2, -3, -4, -5, -6, -7, -8, -9 }

\* each single call is made at most once, the rule-add attempts go through
\* the lists entry by entry without repeating one, a failed call is followed
\* by nothing, and a returned status stays
C14_NoRetry ==
    /\ \A step \in OnceSteps : Len(Attempts(step)) <= 1
    /\ IsPrefix(ScOf(Attempts("rule_add_allow")), allowed_syscalls)
    /\ IsPrefix(ScOf(Attempts("rule_add_error")), allowed_not_kill_syscalls)
    /\ \A k \in 1..Len(log) : ~log[k].ok => (k = Len(log) /\ Returned)
    /\ Returned => (Len(ret) = 1 /\ ret[1] \in StatusCodes)

RuleAddAttempts == SelectSeq(log, LAMBDA e : e.step \in RuleAddSteps)

\* no syscall number is given to seccomp_rule_add twice
C14_OneAttemptPerSyscall ==
    \A j, k \in 1..Len(RuleAddAttempts) :
      RuleAddAttempts[j].sc = RuleAddAttempts[k].sc => j = k

\* C14 as stated: in one init_seccomp call chroot, chdir, prctl, setgid,
\* setuid, seccomp_init and seccomp_load are each invoked at most once and
\* each resolved syscall gets at most one rule-add attempt; for every
\* combination of step outcomes the call eventually returns a status, 0 or a
\* failure code; a single failure is terminal.
C14_NoRetryPerSyscall ==
    /\ [](C14_NoRetry /\ C14_OneAttemptPerSyscall)
    /\ <>Returned
    /\ [][Returned => (Returned' /\ ret' = ret /\ log' = log)]_vars

\* C14, amended: in one init_seccomp call chroot, chdir, prctl, setgid,
\* setuid, seccomp_init and seccomp_load are each invoked at most once and
\* each entry of the resolved allow-list and error-list gets at most one
\* rule-add attempt (a syscall listed twice gets one attempt per listing);
\* for every combination of step outcomes the call eventually returns a
\* status, 0 or a failure code; a single failure is terminal.
C14_NoRetryAndTermination ==
    /\ []C14_NoRetry
    /\ <>Returned
    /\ [][Returned => (Returned' /\ ret' = ret /\ log' = log)]_vars

\* a call that returned after a rule add failed at the second entry of the
\* allow-list
C14_Witness ==
    /\ Returned
    /\ ret = << -7 >>
    /\ Len(Attempts("rule_add_allow")) = 2
    /\ Len(allowed_syscalls) > 2

\* the call made setgid(gid) and it succeeded, before entry k of the log
SetgidDoneBefore(k) == \E j \in 1..(k - 1) : log[j] = Call("setgid", TRUE)

\* the code after the call, running as a dropped user, tried another group
GroupChangeAfterDrop ==
    /\ lastSetgid # NoSetgid
    /\ lastSetgid.euid # 0
    /\ lastSetgid.gid # lastSetgid.from

\* C13: setuid(uid) is invoked only after setgid(gid) has returned success in
\* the same call; and once the user identity is an unprivileged uid, an
\* attempt to change the group to another one does not succeed: the group of
\* the process stays what it was.
C13_GroupBeforeUser ==
    /\ \A k \in 1..Len(log) : log[k].step = "setuid" => SetgidDoneBefore(k)
    /\ euid # 0 => egid = gid
    /\ GroupChangeAfterDrop =>
          /\ lastSetgid.result # "done"
          /\ egid = lastSetgid.from

\* setgid then setuid succeeded, and a later setgid to another group was let
\* through by the filter and refused by the kernel
C13_Witness ==
    /\ Returned
    /\ \E k \in 1..Len(log) : log[k] = Call("setuid", TRUE) /\ SetgidDoneBefore(k)
    /\ GroupChangeAfterDrop
    /\ lastSetgid.result = "failed"
    /\ euid = uid
    /\ egid = gid

\* a call that began with a filter of the default policy already active
SecondCallUnderDefaults == filterAtCall /\ ~env.present

InTable(sc, q) == \E k \in 1..Len(q) : q[k] = sc

\* C15: when init_seccomp has returned 0 with no ALLOWED_SYSCALLS override and
\* is called again, chroot, the first step, is in neither the allow-lists nor
\* the error-list, the active filter answers it by killing the process, and
\* the second call returns no status and attempts no step.
C15_ReinvocationKilledAtChroot ==
    SecondCallUnderDefaults =>
        /\ ~InTable(SYS_chroot, ALLOW_SYSCALLS)
        /\ ~InTable(SYS_chroot, ALLOW_NETWORK_SYSCALLS)
        /\ ~InTable(SYS_chroot, ALLOW_ERROR_SYSCALLS)
        /\ FilterActions(SYS_chroot) = {KILL_PROCESS}
        /\ pc \in {"chroot", "killed"}
        /\ ret = << >>
        /\ log = << >>

\* the second call of a process sandboxed with the defaults was killed at its
\* first step
C15_Witness ==
    /\ SecondCallUnderDefaults
    /\ pc = "killed"
    /\ ~alive
    /\ log = << >>
    /\ ret = << >>

NoDuplicates(q) == Cardinality({ q[k] : k \in 1..Len(q) }) = Len(q)

PolicyResolved ==
    \/ pc \in {"add_allowed", "add_error", "load"}
    \/ Returned /\ ContextCreated

TablesDisjoint ==
    NoDuplicates(ALLOW_SYSCALLS \o ALLOW_NETWORK_SYSCALLS
                   \o ALLOW_ERROR_SYSCALLS)

\* C16: under the default policy (ALLOWED_SYSCALLS unset or empty), for both
\* values of enable_network, no syscall receives two rules: the baseline, the
\* network and the error table are duplicate-free and pairwise disjoint, so
\* the allow-list followed by the error-list holds every syscall at most once
\* and no syscall has both an allow rule and an error rule.
C16_DefaultPolicyNoDuplicates ==
    /\ TablesDisjoint
    /\ (PolicyResolved /\ ~OverridePresent) =>
         LET rules == { ctxRules[k] : k \in 1..Len(ctxRules) } IN
         /\ NoDuplicates(allowed_syscalls \o allowed_not_kill_syscalls)
         /\ NoDuplicates([k \in 1..Len(ctxRules) |-> ctxRules[k].sc])
         /\ \A r \in rules :
              r.action = ALLOW => Rule(r.sc, ERRNO_EPERM) \notin rules

\* the default policy with networking, installed: 63 rules
C16_Witness ==
    /\ Returned
    /\ ret = << 0 >>
    /\ ~env.present
    /\ enable_network = 1
    /\ Len(ctxRules) = Len(ALLOW_SYSCALLS) + Len(ALLOW_NETWORK_SYSCALLS)
                         + Len(ALLOW_ERROR_SYSCALLS)
    /\ kernelFilter = ctxRules

====
